---- MODULE Spec2Model ----
(***************************************************************************)
(* A model of app.py: the two in-memory counter stores (InMemoryDB) with   *)
(* their write-behind snapshot files, the BackgroundSaver loop, the        *)
(* startup pull / shutdown push sequence of the lifespan, the request      *)
(* handlers that touch the stores, and the tiered audio resolver.          *)
(***************************************************************************)
EXTENDS Integers, Sequences, FiniteSets, TLC

(***************************************************************************)
(* Bounds of the model.                                                    *)
(***************************************************************************)
\* increments of one key of one store that are started in one run
MaxIncrements == 2
\* file-system errors (a raising mkstemp, write, remove or rename) in one run
MaxFaults == 1
\* entries the lru_cache of get_audio_blob_from_db holds (the code: 500)
CacheSize == 2
\* save_bookmarks calls that are started in one run
MaxReplaces == 2

(***************************************************************************)
(* Names of the program.                                                   *)
(***************************************************************************)
DB_FILE == "anki_state.json"
WK_DB_FILE == "wanikani_state.json"
KAIWA_BOOKMARKS_FILE == "kaiwa_bookmarks.json"
Files == {DB_FILE, WK_DB_FILE, KAIWA_BOOKMARKS_FILE}

\* the two InMemoryDB instances and the snapshot file of each
Stores == {"bunpro_db", "wk_db"}
filepath(s) == IF s = "bunpro_db" THEN DB_FILE ELSE WK_DB_FILE

\* the counter keys requests use
Keys == {"k1"}
\* the order in which a dict's members are written out
KeyOrder == <<"k1">>

Workers == {"w1", "w2"}
Threads == {"main", "bg"} \cup Workers

(***************************************************************************)
(* A dict of counters: a function from the keys it holds to their values.  *)
(***************************************************************************)
EmptyMap == [k \in {} |-> 0]

\* dict.get(key, 0)
Get(m, k) == IF k \in DOMAIN m THEN m[k] ELSE 0

\* d[key] = value
Put(m, k, v) == [x \in DOMAIN m \cup {k} |-> IF x = k THEN v ELSE m[x]]

\* d.update(other)
Update(m, n) ==
    [x \in DOMAIN m \cup DOMAIN n |-> IF x \in DOMAIN n THEN n[x] ELSE m[x]]

(***************************************************************************)
(* File contents.  A file is absent, blank (created, nothing written),     *)
(* partial (a write that did not complete), garbage (not JSON), or the     *)
(* text of a JSON object: the sequence of its <<name, value>> members.     *)
(***************************************************************************)
Absent == [kind |-> "absent", body |-> <<>>]
Blank == [kind |-> "blank", body |-> <<>>]
Partial == [kind |-> "partial", body |-> <<>>]
Garbage == [kind |-> "garbage", body |-> <<>>]
Object(members) == [kind |-> "object", body |-> members]

\* json.dump(d, f): the members of d in order
Dump(m) ==
    LET ks == SelectSeq(KeyOrder, LAMBDA k : k \in DOMAIN m)
    IN  Object([i \in 1..Len(ks) |-> <<ks[i], m[ks[i]]>>])

\* json.loads of an object's text: a later member overrides an earlier one
RECURSIVE Members(_)
Members(body) ==
    IF body = <<>> THEN EmptyMap
    ELSE LET n == Len(body)
         IN  Put(Members(SubSeq(body, 1, n - 1)), body[n][1], body[n][2])

\* os.path.exists(path)
Exists(c) == c.kind # "absent"

\* InMemoryDB._load_from_disk on a dict m and the file content c: an absent
\* or blank file and a parse error all leave m as it is
Load(m, c) == IF c.kind = "object" THEN Update(m, Members(c.body)) ELSE m

(***************************************************************************)
(* The state.                                                              *)
(***************************************************************************)
VARIABLES
    osName,     \* os.name: "posix" or "nt"
    disk,       \* content of each file of Files
    tmp,        \* content of the mkstemp file each thread is writing
    leaked,     \* temporary files left behind in the directory
    faults,     \* file-system errors so far
    data,       \* InMemoryDB.data of each store
    dirty,      \* InMemoryDB.dirty of each store
    lock,       \* holder of InMemoryDB.lock of each store
    running,    \* BackgroundSaver.running
    pc,         \* the call each thread is in
    sub,        \* the step of that call the thread is at
    buf,        \* the content a thread is writing (data_snapshot, content)
    arg,        \* <<store, key>> of the request a worker handles
    reg,        \* the value a worker read in increment
    result,     \* history: how the last save of sync_at_exit ended
    start,      \* history: each store's dict when serving began
    returned,   \* history: the values increment returned, per store and key
    calls,      \* history: increments completed, per store and key
    before,     \* history: the target's content when a thread's write began
    finalSnap,  \* history: what sync_at_exit's save renamed onto each file
    handlerIO,  \* history: the handlers that did network or snapshot I/O
    dbConn,     \* db_conn is a connection (TRUE) or None (FALSE)
    media,      \* the rows of table media: filename |-> data
    dirGen,     \* the names of the files in DIR_GEN
    dirBulk,    \* the names of the files in DIR_BULK
    cache,      \* lru_cache of get_audio_blob_from_db, least recent first
    response,   \* the last response of serve_audio
    dbErrors,   \* queries of table media that raised so far
    bmReq,      \* <<episode, bookmarks>> of the save_bookmarks a worker runs
    bmDoc,      \* all_bookmarks as that call loaded it
    bmStatus,   \* the status the last save_bookmarks of a worker returned
    bmGot,      \* <<episode, bookmarks>> of the last get_bookmarks response
    bmCalls,    \* save_bookmarks calls started so far
    lastWritten, \* history: the document the last rename put in place
    overlap     \* history: another save_bookmarks ran during a worker's call

storeVars == <<osName, disk, tmp, leaked, faults, data, dirty, lock, running,
               pc, sub, buf, arg, reg, result, start, returned,
               calls, before, finalSnap, handlerIO>>

resolverVars == <<dbConn, media, dirGen, dirBulk, cache, response, dbErrors>>

bookmarkVars ==
    <<bmReq, bmDoc, bmStatus, bmGot, bmCalls, lastWritten, overlap>>

vars == <<storeVars, resolverVars, bookmarkVars>>

(***************************************************************************)
(* Where a thread is.  pc names the call, sub the step inside it.          *)
(***************************************************************************)
DlPos == {"dl_bunpro", "dl_wk", "dl_kaiwa"}
ReloadPos == {"reload_bunpro", "reload_wk"}
ExitSavePos == {"exit_save_bunpro", "exit_save_wk"}
BgSavePos == {"bg_save_bunpro", "bg_save_wk"}
SavePos == ExitSavePos \cup BgSavePos
ExitUpPos == {"exit_up_bunpro", "exit_up_wk", "exit_up_kaiwa"}

\* the statement that follows the call at p
Succ(p) ==
    CASE p = "dl_bunpro" -> "dl_wk"
      [] p = "dl_wk" -> "dl_kaiwa"
      [] p = "dl_kaiwa" -> "reload_bunpro"
      [] p = "reload_bunpro" -> "reload_wk"
      [] p = "reload_wk" -> "start_bg"
      [] p = "start_bg" -> "serving"
      [] p = "serving" -> "exit_save_bunpro"
      [] p = "exit_save_bunpro" -> "exit_save_wk"
      [] p = "exit_save_wk" -> "exit_sleep"
      [] p = "exit_sleep" -> "exit_up_bunpro"
      [] p = "exit_up_bunpro" -> "exit_up_wk"
      [] p = "exit_up_wk" -> "exit_up_kaiwa"
      [] p = "exit_up_kaiwa" -> "done"
      [] p = "bg_check" -> "bg_sleep"
      [] p = "bg_sleep" -> "bg_save_bunpro"
      [] p = "bg_save_bunpro" -> "bg_save_wk"
      [] p = "bg_save_wk" -> "bg_cond"
      [] p = "bg_cond" -> "bg_up"
      [] p = "bg_up" -> "bg_check"
      [] p = "w_inc" -> "idle"

\* the first step of the call at p
FirstSub(p) ==
    IF p \in DlPos THEN "get" ELSE IF p \in SavePos THEN "check" ELSE "none"

\* the file the call at p reads or writes
FileAt(p) ==
    IF p \in {"dl_bunpro", "exit_save_bunpro", "bg_save_bunpro",
              "exit_up_bunpro"} THEN DB_FILE
    ELSE IF p \in {"dl_wk", "exit_save_wk", "bg_save_wk", "exit_up_wk"}
    THEN WK_DB_FILE
    ELSE KAIWA_BOOKMARKS_FILE

\* the store the call at p works on
StoreAt(p) ==
    IF p \in {"reload_bunpro", "exit_save_bunpro", "bg_save_bunpro"}
    THEN "bunpro_db" ELSE "wk_db"

\* a worker that handles no request
NoArg == <<"", "">>

Goto(t, p) ==
    /\ pc' = [pc EXCEPT ![t] = p]
    /\ sub' = [sub EXCEPT ![t] = FirstSub(p)]

\* the outcome a save of sync_at_exit ended with
Outcome(t, r) == result' = IF pc[t] \in ExitSavePos THEN r ELSE result

\* daemon threads and handlers run only while the process lives
Alive == pc["main"] # "done"

(***************************************************************************)
(* Inputs: what the files hold when the process starts and what a gist     *)
(* returns.                                                                *)
(***************************************************************************)
LocalSnapshots(f) ==
    IF f = DB_FILE THEN {Absent, Garbage, Dump(Put(EmptyMap, "k1", 2))}
    ELSE {Absent}
RemoteSnapshots(f) ==
    IF f = DB_FILE
    THEN {Garbage, Dump(EmptyMap), Dump(Put(EmptyMap, "k1", 1))}
    ELSE {Dump(Put(EmptyMap, "k1", 1))}
LocalDocuments == {Absent}
RemoteDocuments == {Object(<<>>)}
Pulled(f) ==
    IF f = KAIWA_BOOKMARKS_FILE THEN RemoteDocuments ELSE RemoteSnapshots(f)

(***************************************************************************)
(* InMemoryDB.__init__ of both stores (module import), before the lifespan *)
(* starts.                                                                 *)
(***************************************************************************)
InitStores ==
    /\ osName \in {"posix", "nt"}
    /\ \E b \in LocalSnapshots(DB_FILE), w \in LocalSnapshots(WK_DB_FILE),
          d \in LocalDocuments :
          disk = (DB_FILE :> b) @@ (WK_DB_FILE :> w)
                   @@ (KAIWA_BOOKMARKS_FILE :> d)
    /\ data = [s \in Stores |-> Load(EmptyMap, disk[filepath(s)])]
    /\ dirty = [s \in Stores |-> FALSE]
    /\ lock = [s \in Stores |-> "free"]
    /\ running = TRUE
    /\ tmp = [t \in Threads |-> Absent]
    /\ leaked = 0
    /\ faults = 0
    /\ pc = [t \in Threads |->
               IF t = "main" THEN "dl_bunpro"
               ELSE IF t = "bg" THEN "unstarted" ELSE "idle"]
    /\ sub = [t \in Threads |-> IF t = "main" THEN "get" ELSE "none"]
    /\ buf = [t \in Threads |-> Absent]
    /\ arg = [w \in Workers |-> NoArg]
    /\ reg = [w \in Workers |-> 0]
    /\ result = "none"
    /\ start = data
    /\ returned = [s \in Stores |-> [k \in Keys |-> {}]]
    /\ calls = [s \in Stores |-> [k \in Keys |-> 0]]
    /\ before = [t \in Threads |-> Absent]
    /\ finalSnap = [s \in Stores |-> Absent]
    /\ handlerIO = {}

(***************************************************************************)
(* The atomic write used by save_to_disk_async and download_from_gist:     *)
(* mkstemp, write + fsync, (on Windows: remove the target), rename.  The   *)
(* temporary file has a fresh name no other thread knows, so creating and  *)
(* writing it is one step; the steps on the target path are separate.      *)
(***************************************************************************)
\* what every step of a write leaves alone
WriteFrame ==
    /\ UNCHANGED <<resolverVars, bookmarkVars>>
    /\ UNCHANGED <<osName, data, dirty, lock, running, arg, reg, start,
                returned, calls, handlerIO>>

\* the write of thread t is over: its locals are dead
EndWrite(t) ==
    /\ tmp' = [tmp EXCEPT ![t] = Absent]
    /\ buf' = [buf EXCEPT ![t] = Absent]
    /\ before' = [before EXCEPT ![t] = Absent]
    /\ Goto(t, Succ(pc[t]))

\* the except clause of the call thread t is in, entered while its temporary
\* file holds c: save_to_disk_async unlinks the file, download_from_gist
\* only prints.  spurious: the step could have succeeded in this state.
Raise(t, c, spurious) ==
    /\ IF spurious THEN faults < MaxFaults /\ faults' = faults + 1
       ELSE UNCHANGED faults
    /\ leaked' = IF pc[t] \in DlPos /\ Exists(c) THEN leaked + 1 ELSE leaked
    /\ Outcome(t, "failed")
    /\ EndWrite(t)
    /\ UNCHANGED <<disk, finalSnap>>

\* tempfile.mkstemp, then json.dump / f.write, f.flush, os.fsync, and the
\* test of os.name
WriteTemp(t) ==
    /\ Alive
    /\ sub[t] = "write"
    /\ \/ /\ tmp' = [tmp EXCEPT ![t] = buf[t]]
          /\ sub' = [sub EXCEPT ![t] =
                       IF osName = "nt" /\ Exists(disk[FileAt(pc[t])])
                       THEN "remove" ELSE "rename"]
          /\ UNCHANGED <<disk, leaked, faults, result, buf, pc, before,
                         finalSnap>>
       \/ \* mkstemp raises: there is no temporary file
          Raise(t, Absent, TRUE)
       \/ \* the write or the fsync raises: the file is there, incomplete
          Raise(t, Partial, TRUE)
    /\ WriteFrame

\* os.rename onto f does not raise FileExistsError
CanRename(f) == osName = "posix" \/ ~Exists(disk[f])

\* os.remove(filepath), reached on Windows only
RemoveTarget(t) ==
    /\ Alive
    /\ sub[t] = "remove"
    /\ \/ /\ Exists(disk[FileAt(pc[t])])
          /\ disk' = [disk EXCEPT ![FileAt(pc[t])] = Absent]
          /\ sub' = [sub EXCEPT ![t] = "rename"]
          /\ UNCHANGED <<tmp, leaked, faults, result, buf, pc, before,
                         finalSnap>>
       \/ Raise(t, tmp[t], Exists(disk[FileAt(pc[t])]))
    /\ WriteFrame

\* os.rename(temp_path, filepath): on Windows it raises when the target exists
Rename(t) ==
    /\ Alive
    /\ sub[t] = "rename"
    /\ \/ /\ CanRename(FileAt(pc[t]))
          /\ disk' = [disk EXCEPT ![FileAt(pc[t])] = tmp[t]]
          /\ finalSnap' = IF pc[t] \in ExitSavePos
                          THEN [finalSnap EXCEPT ![StoreAt(pc[t])] = tmp[t]]
                          ELSE finalSnap
          /\ Outcome(t, "ok")
          /\ EndWrite(t)
          /\ UNCHANGED <<leaked, faults>>
       \/ Raise(t, tmp[t], CanRename(FileAt(pc[t])))
    /\ WriteFrame

(***************************************************************************)
(* sync_at_start: three downloads, then both stores reload.                *)
(***************************************************************************)
\* requests.get and the reading of the response in download_from_gist
DownloadGet ==
    /\ pc["main"] \in DlPos
    /\ sub["main"] = "get"
    /\ \/ \E c \in Pulled(FileAt(pc["main"])) :
             /\ buf' = [buf EXCEPT !["main"] = c]
             /\ before' = [before EXCEPT !["main"] = disk[FileAt(pc["main"])]]
             /\ sub' = [sub EXCEPT !["main"] = "write"]
             /\ UNCHANGED <<pc, result>>
       \/ \* a status other than 200, or an exception
          /\ Goto("main", Succ(pc["main"]))
          /\ UNCHANGED <<buf, result, before>>
    /\ UNCHANGED <<disk, tmp, leaked, faults, finalSnap>>
    /\ WriteFrame

\* bunpro_db._load_from_disk() / wk_db._load_from_disk()
Reload ==
    /\ pc["main"] \in ReloadPos
    /\ LET s == StoreAt(pc["main"])
       IN  data' = [data EXCEPT ![s] = Load(data[s], disk[filepath(s)])]
    /\ start' = data'
    /\ Goto("main", Succ(pc["main"]))
    /\ UNCHANGED <<resolverVars, bookmarkVars>>
    /\ UNCHANGED <<osName, disk, tmp, leaked, faults, dirty, lock,
                   running, buf, arg, reg, result, returned,
                   calls, before, finalSnap, handlerIO>>

\* bg_saver.start(), then the lifespan yields and requests are served
StartBg ==
    /\ pc["main"] = "start_bg"
    /\ pc' = [pc EXCEPT !["main"] = "serving", !["bg"] = "bg_check"]
    /\ UNCHANGED <<resolverVars, bookmarkVars>>
    /\ UNCHANGED <<osName, disk, tmp, leaked, faults, data, dirty,
                   lock, running, sub, buf, arg, reg, result,
                   start, returned, calls, before, finalSnap, handlerIO>>

(***************************************************************************)
(* InMemoryDB: get, increment, save_to_disk_async.                         *)
(***************************************************************************)
\* a store whose methods do not take the lock
AcquireUnlocked(s, t) == TRUE

\* `with self.lock` can be entered by t (an RLock: free, or held by t)
CanAcquire(s, t) == lock[s] \in {"free", t}

\* `self.data[key] =+ 1`: the counter is set to one, not advanced
NewCountAssigned(v) == 1

\* the value increment stores for a key that holds v
NewCount(v) == v + 1

\* GET /state/{key}, GET /wk/state/{key}: InMemoryDB.get under the lock;
\* the response is Get(data[s], k)
GetState(w) ==
    /\ pc["main"] = "serving"
    /\ pc[w] = "idle"
    /\ \E s \in Stores : CanAcquire(s, w)
    /\ UNCHANGED <<resolverVars, bookmarkVars>>
    /\ UNCHANGED <<osName, disk, tmp, leaked, faults, data, dirty,
                   lock, running, pc, sub, buf, arg, reg, result,
                   start, returned, calls, before, finalSnap, handlerIO>>

\* POST /state/{key}/next, POST /wk/state/{key}/next: increment takes the
\* lock and reads self.data.get(key, 0)
IncRead(w) ==
    /\ pc["main"] = "serving"
    /\ pc[w] = "idle"
    /\ \E s \in Stores, k \in Keys :
          /\ calls[s][k] + Cardinality({v \in Workers : arg[v] = <<s, k>>})
                < MaxIncrements
          /\ CanAcquire(s, w)
          /\ lock' = [lock EXCEPT ![s] = w]
          /\ arg' = [arg EXCEPT ![w] = <<s, k>>]
          /\ reg' = [reg EXCEPT ![w] = Get(data[s], k)]
    /\ pc' = [pc EXCEPT ![w] = "w_inc"]
    /\ UNCHANGED <<resolverVars, bookmarkVars>>
    /\ UNCHANGED <<osName, disk, tmp, leaked, faults, data, dirty,
                   running, sub, buf, result, start, returned, calls,
                   before, finalSnap, handlerIO>>

\* increment without its `self.dirty = True`
LeaveFlag(d, s) == d

\* self.dirty = True
MarkDirty(d, s) == [d EXCEPT ![s] = TRUE]

\* increment stores the new value, sets dirty, returns self.data[key] and
\* leaves the lock
IncWrite(w) ==
    /\ pc[w] = "w_inc"
    /\ LET s == arg[w][1]
           k == arg[w][2]
           d == Put(data[s], k, NewCount(reg[w]))
       IN  /\ data' = [data EXCEPT ![s] = d]
           /\ dirty' = MarkDirty(dirty, s)
           /\ returned' = [returned EXCEPT ![s][k] = @ \cup {d[k]}]
           /\ calls' = [calls EXCEPT ![s][k] = @ + 1]
           /\ lock' = [lock EXCEPT ![s] = IF @ = w THEN "free" ELSE @]
    /\ reg' = [reg EXCEPT ![w] = 0]
    /\ arg' = [arg EXCEPT ![w] = NoArg]
    /\ pc' = [pc EXCEPT ![w] = Succ("w_inc")]
    /\ UNCHANGED <<resolverVars, bookmarkVars>>
    /\ UNCHANGED <<osName, disk, tmp, leaked, faults, running, sub,
                   buf, result, start, before, finalSnap, handlerIO>>

\* save_to_disk_async: `if not self.dirty: return`, read without the lock
SaveCheck(t) ==
    /\ Alive
    /\ pc[t] \in SavePos
    /\ sub[t] = "check"
    /\ IF dirty[StoreAt(pc[t])]
       THEN /\ sub' = [sub EXCEPT ![t] = "copy"]
            /\ UNCHANGED <<pc, result>>
       ELSE /\ Outcome(t, "noop")
            /\ Goto(t, Succ(pc[t]))
    /\ UNCHANGED <<disk, tmp, leaked, faults, buf, before, finalSnap>>
    /\ WriteFrame

\* save_to_disk_async: under the lock, data_snapshot = dict(self.data) and
\* self.dirty = False
SaveCopy(t) ==
    /\ Alive
    /\ pc[t] \in SavePos
    /\ sub[t] = "copy"
    /\ LET s == StoreAt(pc[t])
       IN  /\ CanAcquire(s, t)
           /\ buf' = [buf EXCEPT ![t] = Dump(data[s])]
           /\ dirty' = [dirty EXCEPT ![s] = FALSE]
           /\ before' = [before EXCEPT ![t] = disk[filepath(s)]]
    /\ sub' = [sub EXCEPT ![t] = "write"]
    /\ UNCHANGED <<resolverVars, bookmarkVars>>
    /\ UNCHANGED <<osName, disk, tmp, leaked, faults, data, lock,
                   running, pc, arg, reg, result, start,
                   returned, calls, finalSnap, handlerIO>>

(***************************************************************************)
(* BackgroundSaver._upload_to_cloud: each file is read if it exists and    *)
(* sent with requests.patch; an exception skips the file.  A send changes  *)
(* nothing in the process.  sync_at_exit's upload is one step per file:    *)
(* what the step sends is the content the file has in the state it is      *)
(* taken from.                                                             *)
(***************************************************************************)
LoopFrame ==
    /\ UNCHANGED <<resolverVars, bookmarkVars>>
    /\ UNCHANGED <<osName, disk, tmp, leaked, faults, data, dirty, lock,
                   buf,                arg, reg, result, start, returned, calls, before, finalSnap>>

\* sync_at_exit: bg_saver._upload_to_cloud(), the file of the position
ExitUpload ==
    /\ pc["main"] \in ExitUpPos
    /\ Goto("main", Succ(pc["main"]))
    /\ UNCHANGED <<running, handlerIO>>
    /\ LoopFrame

\* _run: self._upload_to_cloud(), the three files
BgUpload ==
    /\ Alive
    /\ pc["bg"] = "bg_up"
    /\ Goto("bg", Succ("bg_up"))
    /\ UNCHANGED <<running, handlerIO>>
    /\ LoopFrame

\* POST /kaiwa/sync-cloud: manual_sync_cloud calls
\* bg_saver._upload_to_cloud() on the thread that handles the request
ManualSyncCloud(w) ==
    /\ pc["main"] = "serving"
    /\ pc[w] = "idle"
    /\ handlerIO' = handlerIO \cup {"manual_sync_cloud"}
    /\ UNCHANGED <<running, pc, sub>>
    /\ LoopFrame

(***************************************************************************)
(* BackgroundSaver._run.                                                   *)
(***************************************************************************)
\* the loop test with the flag left out: while True
LoopForever == TRUE

\* the loop test: self.running
LoopCondition == running

\* while self.running:
BgCheck ==
    /\ Alive
    /\ pc["bg"] = "bg_check"
    /\ IF LoopCondition
       THEN Goto("bg", Succ("bg_check"))
       ELSE Goto("bg", "bg_exited")
    /\ UNCHANGED <<running, handlerIO>>
    /\ LoopFrame

\* time.sleep(10)
BgSleep ==
    /\ Alive
    /\ pc["bg"] = "bg_sleep"
    /\ Goto("bg", Succ("bg_sleep"))
    /\ UNCHANGED <<running, handlerIO>>
    /\ LoopFrame

\* if int(time.time()) % 300 < 15:
BgCond ==
    /\ Alive
    /\ pc["bg"] = "bg_cond"
    /\ \/ Goto("bg", Succ("bg_cond"))
       \/ Goto("bg", "bg_check")
    /\ UNCHANGED <<running, handlerIO>>
    /\ LoopFrame

(***************************************************************************)
(* sync_at_exit.  The server has stopped taking requests and every handler *)
(* has returned when the lifespan resumes after its yield.                 *)
(***************************************************************************)
\* bg_saver.stop()
Stop ==
    /\ pc["main"] = "serving"
    /\ \A w \in Workers : pc[w] = "idle"
    /\ running' = FALSE
    /\ Goto("main", Succ("serving"))
    /\ UNCHANGED <<handlerIO>>
    /\ LoopFrame

\* time.sleep(0.5)
ExitSleep ==
    /\ pc["main"] = "exit_sleep"
    /\ Goto("main", Succ("exit_sleep"))
    /\ UNCHANGED <<running, handlerIO>>
    /\ LoopFrame

(***************************************************************************)
(* The audio resolver: GET /media/{filename}.  A filename is the sequence  *)
(* of its dot-separated parts, <<"foo", ".mp3">> for foo.mp3; bytes are a  *)
(* sequence, empty for b"".  An optional value (a row of fetchone, a blob  *)
(* or None) is a sequence of at most one element.                          *)
(***************************************************************************)
None == <<>>
Some(x) == <<x>>

\* the extensions get_audio_blob_from_db retries with, in its order
DbExtensions == <<".opus", ".ogg", ".mp3", ".wav">>
\* the extensions serve_audio retries with on the file system, in its order
FsExtensions == <<".ogg", ".mp3", ".wav", ".opus">>

\* Path(filename).stem: the name without its last suffix
Stem(fn) == IF Len(fn) > 1 THEN SubSeq(fn, 1, Len(fn) - 1) ELSE fn
\* f"{stem}{ext}"
WithExt(stem, ext) == Append(stem, ext)

\* the names rows and files have, and the names requests ask for
MediaNames == {<<"foo", ".opus">>, <<"foo", ".ogg">>, <<"foo", ".mp3">>,
               <<"foo", ".wav">>}
Requests == {<<"foo", ".mp3">>, <<"foo", ".opus">>, <<"foo">>}

\* the data of the row named n: empty, or bytes no other row or file has
RowData(n) == {<<>>, <<"db", n>>}
\* the bytes of the file named n in a directory
FileBytes(dir, n) == <<dir, n>>

\* SELECT data FROM media WHERE filename = ?, then cursor.fetchone()
Row(fn) == IF fn \in DOMAIN media THEN Some(media[fn]) ELSE None

\* the loop over the extensions: the first row found
RECURSIVE FirstRow(_, _)
FirstRow(stem, exts) ==
    IF exts = <<>> THEN None
    ELSE IF Row(WithExt(stem, Head(exts))) # None
         THEN Row(WithExt(stem, Head(exts)))
         ELSE FirstRow(stem, Tail(exts))

\* the body of get_audio_blob_from_db: row[0], or None
get_audio_blob_from_db(filename) ==
    IF ~dbConn THEN None
    ELSE IF Row(filename) # None THEN Row(filename)
         ELSE FirstRow(Stem(filename), DbExtensions)

\* lru_cache: the position of a key in the cache, 0 when it is not there
CacheIndex(c, key) ==
    IF \E i \in 1..Len(c) : c[i][1] = key
    THEN CHOOSE i \in 1..Len(c) : c[i][1] = key
    ELSE 0

Without(c, i) == SubSeq(c, 1, i - 1) \o SubSeq(c, i + 1, Len(c))

\* lru_cache: a hit makes the entry the most recent one
Touch(c, key) == Without(c, CacheIndex(c, key)) \o <<c[CacheIndex(c, key)]>>

\* lru_cache: a miss stores the result, None included, and drops the least
\* recent entry of a full cache
Insert(c, key, value) ==
    IF Len(c) >= CacheSize
    THEN Append(Tail(c), <<key, value>>)
    ELSE Append(c, <<key, value>>)

\* `if blob:` is false for None and for b""
Truthy(blob) == blob # None /\ blob[1] # <<>>

\* the loop over the extensions in serve_audio: DIR_GEN, then DIR_BULK
RECURSIVE FirstFile(_, _)
FirstFile(stem, exts) ==
    IF exts = <<>> THEN None
    ELSE IF WithExt(stem, Head(exts)) \in dirGen
         THEN Some(FileBytes("gen", WithExt(stem, Head(exts))))
         ELSE IF WithExt(stem, Head(exts)) \in dirBulk
              THEN Some(FileBytes("bulk", WithExt(stem, Head(exts))))
              ELSE FirstFile(stem, Tail(exts))

\* file_path in serve_audio, as the bytes read from it
FilePath(filename) ==
    IF filename \in dirGen THEN Some(FileBytes("gen", filename))
    ELSE IF filename \in dirBulk THEN Some(FileBytes("bulk", filename))
    ELSE FirstFile(Stem(filename), FsExtensions)

NoResponse ==
    [request |-> <<>>, status |-> 0, content |-> <<>>, immutable |-> FALSE,
     queried |-> FALSE]

\* the Response serve_audio returns for a blob
Respond(filename, blob, queried) ==
    IF Truthy(blob)
    THEN [request |-> filename, status |-> 200, content |-> blob[1],
          immutable |-> TRUE, queried |-> queried]
    ELSE IF FilePath(filename) # None
    THEN [request |-> filename, status |-> 200,
          content |-> FilePath(filename)[1], immutable |-> FALSE,
          queried |-> queried]
    ELSE [request |-> filename, status |-> 404, content |-> <<>>,
          immutable |-> FALSE, queried |-> queried]

\* a call of the cached function that is not answered from the cache: the
\* body runs, and what it returns, None after `except` included, is stored
CallBody(filename, blob) ==
    /\ cache' = Insert(cache, filename, blob)
    /\ response' = Respond(filename, blob, dbConn)

\* GET /media/{filename}
serve_audio(filename) ==
    /\ IF CacheIndex(cache, filename) # 0
       THEN /\ cache' = Touch(cache, filename)
            /\ response' = Respond(filename,
                                   cache[CacheIndex(cache, filename)][2],
                                   FALSE)
            /\ UNCHANGED dbErrors
       ELSE \/ /\ CallBody(filename, get_audio_blob_from_db(filename))
               /\ UNCHANGED dbErrors
            \/ \* cursor.execute raises: `except: return None`
               /\ dbConn
               /\ dbErrors < MaxFaults
               /\ dbErrors' = dbErrors + 1
               /\ CallBody(filename, None)
    /\ UNCHANGED <<dbConn, media, dirGen, dirBulk>>
    /\ UNCHANGED <<storeVars, bookmarkVars>>

\* no request for audio has been made and there is nothing to serve
InitNoMedia ==
    /\ dbConn = FALSE
    /\ media = <<>>
    /\ dirGen = {}
    /\ dirBulk = {}
    /\ cache = <<>>
    /\ response = NoResponse
    /\ dbErrors = 0

\* the database and the two directories as the process finds them
InitMedia ==
    /\ dbConn \in BOOLEAN
    /\ \E D \in SUBSET MediaNames :
          /\ ~dbConn => D = {}
          /\ media \in {m \in [D -> UNION {RowData(n) : n \in D}] :
                          \A n \in D : m[n] \in RowData(n)}
    /\ dirGen \in SUBSET MediaNames
    /\ dirBulk \in SUBSET MediaNames
    /\ cache = <<>>
    /\ response = NoResponse
    /\ dbErrors = 0

(***************************************************************************)
(* The bookmark document: GET and POST /kaiwa/bookmarks/{episode_name}.    *)
(* A Python dict keeps its members in insertion order, so the document is  *)
(* the sequence of its <<episode, bookmarks>> members, and its file is the *)
(* JSON object with these members.  A file that is not JSON and a JSON     *)
(* text that is not an object (which .get and item assignment reject) end  *)
(* in the same except clause: both are Garbage.                            *)
(***************************************************************************)
Episodes == {"ep1", "ep2"}
BookmarkLists == {<<"a">>, <<"b">>}
NoReq == <<>>
EmptyDoc == <<>>

\* all_bookmarks.get(episode_name, [])
DocGet(d, e) ==
    IF \E i \in 1..Len(d) : d[i][1] = e
    THEN d[CHOOSE i \in 1..Len(d) : d[i][1] = e][2]
    ELSE <<>>

\* all_bookmarks[episode_name] = bookmarks: in place, or as the last member
DocSet(d, e, l) ==
    IF \E i \in 1..Len(d) : d[i][1] = e
    THEN [i \in 1..Len(d) |-> IF d[i][1] = e THEN <<e, l>> ELSE d[i]]
    ELSE Append(d, <<e, l>>)

\* json.load of an object's text
RECURSIVE LoadDoc(_)
LoadDoc(body) ==
    IF body = <<>> THEN EmptyDoc
    ELSE LET n == Len(body)
         IN  DocSet(LoadDoc(SubSeq(body, 1, n - 1)), body[n][1], body[n][2])

\* the documents the file holds when requests begin
BookmarkDocuments ==
    {Absent, Garbage, Object(<<>>), Object(<<<<"ep1", <<"a">>>>>>),
     Object(<<<<"ep2", <<"b">>>>, <<"ep1", <<"a">>>>>>)}

\* what get_bookmarks answers for an episode when the file holds c
Bookmarks(c, e) == IF c.kind = "object" THEN DocGet(LoadDoc(c.body), e) ELSE <<>>

BookmarkFrame ==
    /\ UNCHANGED <<osName, data, dirty, lock, running, arg, reg, result,
                   start, returned, calls, finalSnap>>
    /\ UNCHANGED resolverVars

\* GET /kaiwa/bookmarks/{episode_name}
get_bookmarks(w) ==
    /\ pc["main"] = "serving"
    /\ pc[w] = "idle"
    /\ \E e \in Episodes :
          bmGot' = <<e, Bookmarks(disk[KAIWA_BOOKMARKS_FILE], e)>>
    /\ handlerIO' = handlerIO \cup {"get_bookmarks"}
    /\ UNCHANGED <<disk, tmp, leaked, faults, pc, sub, buf, before, bmReq,
                   bmDoc, bmStatus, bmCalls, lastWritten, overlap>>
    /\ BookmarkFrame

\* a worker is inside save_bookmarks
Saving(w) == pc[w] = "bm_save"

\* POST /kaiwa/bookmarks/{episode_name}: bookmarks = data.get(...) and
\* all_bookmarks = {}
SaveBegin(w) ==
    /\ pc["main"] = "serving"
    /\ pc[w] = "idle"
    /\ bmCalls < MaxReplaces
    /\ bmCalls' = bmCalls + 1
    /\ \E e \in Episodes, l \in BookmarkLists :
          bmReq' = [bmReq EXCEPT ![w] = <<e, l>>]
    /\ bmDoc' = [bmDoc EXCEPT ![w] = EmptyDoc]
    /\ bmStatus' = [bmStatus EXCEPT ![w] = "none"]
    /\ before' = [before EXCEPT ![w] = disk[KAIWA_BOOKMARKS_FILE]]
    /\ overlap' = [v \in Workers |->
                     IF v = w THEN \E u \in Workers \ {w} : Saving(u)
                     ELSE overlap[v] \/ Saving(v)]
    /\ pc' = [pc EXCEPT ![w] = "bm_save"]
    /\ sub' = [sub EXCEPT ![w] = "exists"]
    /\ handlerIO' = handlerIO \cup {"save_bookmarks"}
    /\ UNCHANGED <<disk, tmp, leaked, faults, buf, bmGot, lastWritten>>
    /\ BookmarkFrame

\* save_bookmarks returns {"status": "ok"}, or "error" from the except clause,
\* which leaves the temporary file, holding c, where it is
SaveReturn(w, status, c) ==
    /\ bmStatus' = [bmStatus EXCEPT ![w] = status]
    /\ UNCHANGED bmReq
    /\ bmDoc' = [bmDoc EXCEPT ![w] = EmptyDoc]
    /\ overlap' = [overlap EXCEPT ![w] = FALSE]
    /\ before' = [before EXCEPT ![w] = Absent]
    /\ tmp' = [tmp EXCEPT ![w] = Absent]
    /\ buf' = [buf EXCEPT ![w] = Absent]
    /\ leaked' = IF Exists(c) /\ status = "error" THEN leaked + 1 ELSE leaked
    /\ pc' = [pc EXCEPT ![w] = "idle"]
    /\ sub' = [sub EXCEPT ![w] = "none"]

\* a file-system call of save_bookmarks raises though it could succeed
SaveFault(w, c) ==
    /\ faults < MaxFaults
    /\ faults' = faults + 1
    /\ SaveReturn(w, "error", c)
    /\ UNCHANGED <<disk, lastWritten>>

\* the document save_bookmarks writes after `all_bookmarks[episode] = ...`
Updated(w, d) == Object(DocSet(d, bmReq[w][1], bmReq[w][2]))

\* if os.path.exists(KAIWA_BOOKMARKS_FILE):
SaveExists(w) ==
    /\ Alive
    /\ Saving(w)
    /\ sub[w] = "exists"
    /\ IF Exists(disk[KAIWA_BOOKMARKS_FILE])
       THEN /\ sub' = [sub EXCEPT ![w] = "load"]
            /\ UNCHANGED buf
       ELSE /\ sub' = [sub EXCEPT ![w] = "write"]
            /\ buf' = [buf EXCEPT ![w] = Updated(w, EmptyDoc)]
    /\ UNCHANGED <<disk, tmp, leaked, faults, pc, before, handlerIO>>
    /\ UNCHANGED bookmarkVars
    /\ BookmarkFrame

\* open(KAIWA_BOOKMARKS_FILE) and json.load(f), then the update
SaveLoad(w) ==
    /\ Alive
    /\ Saving(w)
    /\ sub[w] = "load"
    /\ IF disk[KAIWA_BOOKMARKS_FILE].kind = "object"
       THEN /\ bmDoc' = [bmDoc EXCEPT
                           ![w] = LoadDoc(disk[KAIWA_BOOKMARKS_FILE].body)]
            /\ buf' = [buf EXCEPT ![w] = Updated(w, bmDoc'[w])]
            /\ sub' = [sub EXCEPT ![w] = "write"]
            /\ UNCHANGED <<tmp, leaked, pc, before, bmReq, bmStatus, overlap>>
       ELSE \* the file is gone or is not a JSON object
            SaveReturn(w, "error", Absent)
    /\ UNCHANGED <<disk, faults, handlerIO, bmGot, bmCalls, lastWritten>>
    /\ BookmarkFrame

\* tempfile.mkstemp, json.dump, f.flush, os.fsync, and the test of os.name
SaveWrite(w) ==
    /\ Alive
    /\ Saving(w)
    /\ sub[w] = "write"
    /\ \/ /\ tmp' = [tmp EXCEPT ![w] = buf[w]]
          /\ sub' = [sub EXCEPT ![w] =
                       IF osName = "nt" /\ Exists(disk[KAIWA_BOOKMARKS_FILE])
                       THEN "remove" ELSE "rename"]
          /\ UNCHANGED <<disk, leaked, faults, pc, buf, before, bmReq, bmDoc,
                         bmStatus, lastWritten, overlap>>
       \/ \* mkstemp raises
          SaveFault(w, Absent)
       \/ \* the write or the fsync raises: the file is there, incomplete
          SaveFault(w, Partial)
    /\ UNCHANGED <<handlerIO, bmGot, bmCalls>>
    /\ BookmarkFrame

\* os.remove(KAIWA_BOOKMARKS_FILE), reached on Windows only
SaveRemove(w) ==
    /\ Alive
    /\ Saving(w)
    /\ sub[w] = "remove"
    /\ \/ /\ Exists(disk[KAIWA_BOOKMARKS_FILE])
          /\ disk' = [disk EXCEPT ![KAIWA_BOOKMARKS_FILE] = Absent]
          /\ sub' = [sub EXCEPT ![w] = "rename"]
          /\ UNCHANGED <<tmp, leaked, faults, pc, buf, before, bmReq, bmDoc,
                         bmStatus, lastWritten, overlap>>
       \/ /\ Exists(disk[KAIWA_BOOKMARKS_FILE])
          /\ SaveFault(w, tmp[w])
       \/ \* another writer removed the file: FileNotFoundError
          /\ ~Exists(disk[KAIWA_BOOKMARKS_FILE])
          /\ SaveReturn(w, "error", tmp[w])
          /\ UNCHANGED <<disk, faults, lastWritten>>
    /\ UNCHANGED <<handlerIO, bmGot, bmCalls>>
    /\ BookmarkFrame

\* os.rename(temp_path, KAIWA_BOOKMARKS_FILE) and return {"status": "ok"}
SaveRename(w) ==
    /\ Alive
    /\ Saving(w)
    /\ sub[w] = "rename"
    /\ \/ /\ CanRename(KAIWA_BOOKMARKS_FILE)
          /\ disk' = [disk EXCEPT ![KAIWA_BOOKMARKS_FILE] = tmp[w]]
          /\ lastWritten' = tmp[w]
          /\ SaveReturn(w, "ok", tmp[w])
          /\ UNCHANGED faults
       \/ /\ CanRename(KAIWA_BOOKMARKS_FILE)
          /\ SaveFault(w, tmp[w])
       \/ \* on Windows the target exists: FileExistsError
          /\ ~CanRename(KAIWA_BOOKMARKS_FILE)
          /\ SaveReturn(w, "error", tmp[w])
          /\ UNCHANGED <<disk, faults, lastWritten>>
    /\ UNCHANGED <<handlerIO, bmGot, bmCalls>>
    /\ BookmarkFrame

\* no bookmark request has been made
InitNoBookmarks ==
    /\ bmReq = [w \in Workers |-> NoReq]
    /\ bmDoc = [w \in Workers |-> EmptyDoc]
    /\ bmStatus = [w \in Workers |-> "none"]
    /\ bmGot = NoReq
    /\ bmCalls = 0
    /\ lastWritten = Absent
    /\ overlap = [w \in Workers |-> FALSE]

Init == InitStores /\ InitNoMedia /\ InitNoBookmarks

Next ==
    \/ DownloadGet
    \/ Reload
    \/ StartBg
    \/ \E t \in {"main", "bg"} :
          WriteTemp(t) \/ RemoveTarget(t) \/ Rename(t)
            \/ SaveCheck(t) \/ SaveCopy(t)
    \/ \E w \in Workers :
          GetState(w) \/ IncRead(w) \/ IncWrite(w) \/ ManualSyncCloud(w)
    \/ BgCheck
    \/ BgSleep
    \/ BgCond
    \/ BgUpload
    \/ Stop
    \/ ExitSleep
    \/ ExitUpload

Spec == Init /\ [][Next]_vars

\* the resolver alone, on a process whose stores are at rest
InitResolve ==
    /\ InitStores
    /\ osName = "posix"
    /\ disk[DB_FILE] = Absent
    /\ InitMedia
    /\ InitNoBookmarks

NextResolve == \E filename \in Requests : serve_audio(filename)

SpecResolve == InitResolve /\ [][NextResolve]_vars

\* the bookmark handlers alone, on a process that serves requests: the
\* startup is over, no pull has changed the stores
InitBookmarks ==
    /\ osName \in {"posix", "nt"}
    /\ \E d \in BookmarkDocuments :
          disk = (DB_FILE :> Absent) @@ (WK_DB_FILE :> Absent)
                   @@ (KAIWA_BOOKMARKS_FILE :> d)
    /\ data = [s \in Stores |-> EmptyMap]
    /\ dirty = [s \in Stores |-> FALSE]
    /\ lock = [s \in Stores |-> "free"]
    /\ running = TRUE
    /\ tmp = [t \in Threads |-> Absent]
    /\ leaked = 0
    /\ faults = 0
    /\ pc = [t \in Threads |->
               IF t = "main" THEN "serving"
               ELSE IF t = "bg" THEN "bg_check" ELSE "idle"]
    /\ sub = [t \in Threads |-> "none"]
    /\ buf = [t \in Threads |-> Absent]
    /\ arg = [w \in Workers |-> NoArg]
    /\ reg = [w \in Workers |-> 0]
    /\ result = "none"
    /\ start = data
    /\ returned = [s \in Stores |-> [k \in Keys |-> {}]]
    /\ calls = [s \in Stores |-> [k \in Keys |-> 0]]
    /\ before = [t \in Threads |-> Absent]
    /\ finalSnap = [s \in Stores |-> Absent]
    /\ handlerIO = {}
    /\ InitNoMedia
    /\ InitNoBookmarks

NextBookmarks ==
    \E w \in Workers :
        \/ get_bookmarks(w)
        \/ SaveBegin(w)
        \/ SaveExists(w)
        \/ SaveLoad(w)
        \/ SaveWrite(w)
        \/ SaveRemove(w)
        \/ SaveRename(w)

SpecBookmarks == InitBookmarks /\ [][NextBookmarks]_vars

(***************************************************************************)
(* Properties of the stores and of their snapshot files, under Spec.       *)
(***************************************************************************)
StoreKeys == {<<s, k>> : s \in Stores, k \in Keys}

\* C1: no lost updates.  However increments of one key interleave with each
\* other, with get and with flushes, the counter equals the value it had when
\* serving began plus the number of increments that returned, and the values
\* the increments returned are exactly the next ones after that value, each
\* once (1..T*I for a key that began at 0).
NoLostUpdates ==
    \A sk \in StoreKeys :
        LET s == sk[1]
            k == sk[2]
            v0 == Get(start[s], k)
        IN  /\ Get(data[s], k) = v0 + calls[s][k]
            /\ returned[s][k] = (v0 + 1)..(v0 + calls[s][k])

\* two increments of a fresh key have returned, a flush ran between them
NoLostUpdatesWitness ==
    /\ Get(start["bunpro_db"], "k1") = 0
    /\ calls["bunpro_db"]["k1"] = 2
    /\ returned["bunpro_db"]["k1"] = {1, 2}
    /\ Get(data["bunpro_db"], "k1") = 2
    /\ disk[DB_FILE] = Dump(Put(EmptyMap, "k1", 1))
    /\ \A w \in Workers : pc[w] = "idle"

\* the reload of a store that follows the startup pull
ReloadStep == pc["main"] \in ReloadPos /\ pc'["main"] # pc["main"]

NonDecreasingStep ==
    \A sk \in StoreKeys : Get(data'[sk[1]], sk[2]) >= Get(data[sk[1]], sk[2])

\* C2 as stated: no step of a store's lifetime, the reload after the startup
\* pull included, makes a counter smaller.
NeverDecreases == [][NonDecreasingStep]_vars

\* C2 amended: increment, get, flush and the remote push never make a counter
\* smaller; only the reload that follows the startup pull can, as it
\* overwrites the keys of the pulled snapshot.
NeverDecreasesButReload == [][ReloadStep \/ NonDecreasingStep]_vars

\* a counter that began at 2 was incremented twice, flushed and pushed
NeverDecreasesWitness ==
    /\ pc["main"] = "done"
    /\ Get(start["bunpro_db"], "k1") = 2
    /\ calls["bunpro_db"]["k1"] = 2
    /\ Get(data["bunpro_db"], "k1") = 4
    /\ disk[DB_FILE] = Dump(Put(EmptyMap, "k1", 4))

\* the mapping a fresh store constructed on the file of s starts with
Fresh(s) == Load(EmptyMap, disk[filepath(s)])

\* a flush of sync_at_exit returns from store s without a failed write
FlushReturns(s) ==
    /\ pc["main"] \in ExitSavePos
    /\ StoreAt(pc["main"]) = s
    /\ pc'["main"] = Succ(pc["main"])
    /\ result' # "failed"

\* C3: snapshot round trip.  When a flush of a store returns and no write
\* failed, a fresh store constructed on the same path holds the mapping the
\* flushed store holds.
RoundTrip ==
    [][\A s \in Stores : FlushReturns(s) => Fresh(s)' = data'[s]]_vars

\* the final flush of sync_at_exit has started
ExitStarted ==
    pc["main"] \in ExitSavePos \cup {"exit_sleep", "done"} \cup ExitUpPos

\* the background loop copies, writes or renames a snapshot, or pushes
BgFlushStep ==
    /\ pc["bg"] \in BgSavePos
    /\ sub["bg"] \in {"copy", "write", "remove", "rename"}
    /\ <<pc["bg"], sub["bg"]>>' # <<pc["bg"], sub["bg"]>>
BgPushStep == pc["bg"] = "bg_up" /\ pc'["bg"] # "bg_up"

\* from the final push on, each snapshot file holds what the final flush
\* renamed onto it
FinalOnDisk ==
    \A s \in Stores :
        pc["main"] \in ExitUpPos \cup {"done"} /\ Exists(finalSnap[s])
            => disk[filepath(s)] = finalSnap[s]

\* C4: shutdown ordering.  Once the final flush has started the background
\* loop performs no flush and no push, and from the final push on each
\* snapshot file holds what the final flush renamed onto it.
ShutdownOrdering ==
    [][/\ ExitStarted => ~(BgFlushStep \/ BgPushStep)
       /\ FinalOnDisk']_vars

\* C5: no endpoint handler performs a remote push or pull or snapshot file
\* I/O; these run on the background loop and in the startup and shutdown
\* sequences only.
NoHandlerIO == handlerIO = {}

\* _load_from_disk has returned for store s and nothing has run since: after
\* construction, and after the reload that follows the startup pull
Loaded(s) ==
    \/ pc["main"] = "dl_bunpro" /\ sub["main"] = "get"
    \/ pc["main"] = "start_bg"
    \/ pc["main"] = "reload_wk" /\ s = "bunpro_db"

\* C6: loadSnapshot replaces the mapping.  After it returns the mapping is
\* exactly the content of a well-formed file, and is empty when the file is
\* malformed.
LoadReplaces ==
    \A s \in Stores :
        Loaded(s) =>
            LET c == disk[filepath(s)]
            IN  /\ c.kind = "object" => data[s] = Members(c.body)
                /\ c.kind = "garbage" => data[s] = EmptyMap

\* thread t is at the rename of a write onto file f
Renaming(t, f) ==
    /\ pc[t] \in DlPos \cup SavePos
    /\ FileAt(pc[t]) = f
    /\ sub[t] = "rename"

\* C7: atomic visibility.  The content of a target path changes only by the
\* rename of a complete new file onto it; no step of a write leaves the path
\* without a file or with a partial one.
AtomicVisibility ==
    [][\A f \in Files :
          disk'[f] # disk[f] =>
              \E t \in {"main", "bg"} :
                  Renaming(t, f) /\ disk'[f] = buf[t]]_vars

\* a step of the write of thread t raises
Raises(t) ==
    /\ sub[t] \in {"write", "remove", "rename"}
    /\ pc'[t] # pc[t]
    /\ ~(sub[t] = "rename" /\ CanRename(FileAt(pc[t])) /\ faults' = faults)

\* C8: failure cleanup.  When a step of an atomic write fails, no temporary
\* file is left behind and the target path holds the content it held when
\* the write began.
FailureCleanup ==
    [][\A t \in {"main", "bg"} :
          Raises(t) => /\ leaked' = leaked
                       /\ disk'[FileAt(pc[t])] = before[t]]_vars


(***************************************************************************)
(* Properties of the audio resolver, under SpecResolve.                    *)
(***************************************************************************)
\* the one extension order the database tier and the file-system tier share
TierExtensions == <<".opus", ".ogg", ".mp3", ".wav">>

\* the positions in TierExtensions of the extensions p holds of a stem
Found(p(_), stem) ==
    {i \in 1..Len(TierExtensions) : p(WithExt(stem, TierExtensions[i]))}
Least(S) == CHOOSE i \in S : \A j \in S : i <= j

InMedia(n) == n \in DOMAIN media
OnDisk(n) == n \in dirGen \cup dirBulk

\* the row the database tier resolves a filename to: the exact one, else the
\* first in extension order, else none
DbTier(fn) ==
    IF InMedia(fn) THEN Some(media[fn])
    ELSE IF Found(InMedia, Stem(fn)) = {} THEN None
    ELSE Some(media[WithExt(Stem(fn),
                            TierExtensions[Least(Found(InMedia, Stem(fn)))])])

\* the bytes of the file named n: the primary directory before the secondary
FileOf(n) ==
    IF n \in dirGen THEN FileBytes("gen", n) ELSE FileBytes("bulk", n)

\* the file the file-system tier resolves a filename to
FsTier(fn) ==
    IF OnDisk(fn) THEN Some(FileOf(fn))
    ELSE IF Found(OnDisk, Stem(fn)) = {} THEN None
    ELSE Some(FileOf(WithExt(Stem(fn),
                             TierExtensions[Least(Found(OnDisk, Stem(fn)))])))

\* C9: database-tier resolution.  When the database holds a row with the
\* requested filename, or with its stem and one of .opus, .ogg, .mp3, .wav,
\* the response carries the bytes of the exact row, else of the first row in
\* that order, whatever files the directories hold.
DbTierResolution ==
    response # NoResponse /\ DbTier(response.request) # None
        => /\ response.status = 200
           /\ response.content = DbTier(response.request)[1]

\* C10: file-system-tier order.  When the database tier misses, the response
\* carries the exact file of the primary, then of the secondary directory,
\* else the first file in the order .opus, .ogg, .mp3, .wav with the primary
\* directory before the secondary for each extension, else it is a 404.
FsTierOrder ==
    response # NoResponse /\ DbTier(response.request) = None
        => IF FsTier(response.request) = None
           THEN response.status = 404
           ELSE /\ response.status = 200
                /\ response.content = FsTier(response.request)[1]

\* the entries of a cache, whatever their order
Entries(c) == {c[i] : i \in 1..Len(c)}

\* what serve_audio returns for a filename when the database is asked
Uncached(fn) == Respond(fn, get_audio_blob_from_db(fn), FALSE)

\* C11: cache transparency.  A call for a database-backed filename that is
\* answered from the cache returns the content the database lookup gives, and
\* a call for a filename whose entry is in the cache asks the database nothing.
CacheTransparency ==
    [][CacheIndex(cache, response'.request) # 0
          => /\ ~response'.queried
             /\ DbTier(response'.request) # None
                   => /\ response'.status = Uncached(response'.request).status
                      /\ response'.content
                            = Uncached(response'.request).content]_vars

\* C12: a resolve that the file-system tier satisfies, or that finds nothing,
\* puts no entry into the blob cache and removes none, and its response is
\* not immutable; a response that is immutable carries the bytes of a
\* database row.
OnlyDbHitsCached ==
    [][/\ ~response'.immutable => Entries(cache') = Entries(cache)
       /\ response'.immutable
             => /\ DbTier(response'.request) # None
                /\ response'.content = DbTier(response'.request)[1]]_vars

(***************************************************************************)
(* The bookmark document                                                   *)
(***************************************************************************)
\* save_bookmarks returns in this step, and no other save_bookmarks call
\* ran at any moment of the call
SequentialReturn(w) == Saving(w) /\ pc'[w] = "idle" /\ ~overlap[w]

\* the entries of the episodes other than the one the call names are, when
\* the call returns, what they were when it began
OthersKept(w) ==
    \A e \in Episodes \ {bmReq[w][1]} :
        Bookmarks(disk'[KAIWA_BOOKMARKS_FILE], e) = Bookmarks(before[w], e)

\* C13: a replace call that overlaps no other replace call changes only the
\* entry of its own episode: every other episode reads the same list after
\* the call as before it.
BookmarkIsolation ==
    [][\A w \in Workers : SequentialReturn(w) => OthersKept(w)]_vars

\* the same, for the calls during which no file-system call raised though
\* it could succeed
BookmarkIsolationNoFault ==
    [][\A w \in Workers :
          SequentialReturn(w) /\ faults' = 0 => OthersKept(w)]_vars

\* the same, where os.name is not 'nt'
BookmarkIsolationPosix ==
    [][\A w \in Workers :
          SequentialReturn(w) /\ osName = "posix" => OthersKept(w)]_vars

\* the file is missing, or holds something that is not a JSON object
Unreadable(c) == c.kind # "object"

\* get_bookmarks answers in this step
GetStep == bmGot' # bmGot

\* a replace call that met the content c starts from the empty document,
\* writes it and returns ok, unless a file-system call raised on the way
ReplacesFromEmpty(w) ==
    /\ bmStatus'[w] = "ok"
    /\ disk'[KAIWA_BOOKMARKS_FILE] = Updated(w, EmptyDoc)
    /\ Bookmarks(disk'[KAIWA_BOOKMARKS_FILE], bmReq[w][1]) = bmReq[w][2]

\* C14: a missing or malformed bookmark document is an empty document: get
\* answers the empty list, and a replace call starts from the empty
\* document, writes it and returns ok, so that a following get answers the
\* list of the call.
UnreadableIsEmpty ==
    [][/\ GetStep /\ Unreadable(disk[KAIWA_BOOKMARKS_FILE])
             => bmGot'[2] = <<>>
       /\ \A w \in Workers :
             SequentialReturn(w) /\ Unreadable(before[w]) /\ faults' = faults
                => ReplacesFromEmpty(w)]_vars

\* the same, for the missing document alone
MissingIsEmpty ==
    [][/\ GetStep /\ Unreadable(disk[KAIWA_BOOKMARKS_FILE])
             => bmGot'[2] = <<>>
       /\ \A w \in Workers :
             SequentialReturn(w) /\ ~Exists(before[w]) /\ faults' = faults
                => ReplacesFromEmpty(w)]_vars

\* no save_bookmarks call is running
Quiet == \A w \in Workers : ~Saving(w)

\* C18: after concurrent replace calls the document is the whole document
\* that the call whose rename came last wrote, never a mixture (though one of
\* two updates that both returned ok may be missing from it).
LastRenameWins ==
    Quiet /\ Exists(lastWritten) => disk[KAIWA_BOOKMARKS_FILE] = lastWritten

\* the same, as long as no file-system call raised though it could succeed
LastRenameWinsNoFault ==
    Quiet /\ Exists(lastWritten) /\ faults = 0
        => disk[KAIWA_BOOKMARKS_FILE] = lastWritten

\* the same, where os.name is not 'nt'
LastRenameWinsPosix ==
    Quiet /\ Exists(lastWritten) /\ osName = "posix"
        => disk[KAIWA_BOOKMARKS_FILE] = lastWritten

\* both calls returned ok, for different episodes, and the document lacks
\* the update of one of them
LostUpdate ==
    /\ Quiet
    /\ \A w \in Workers : bmStatus[w] = "ok"
    /\ bmReq["w1"][1] # bmReq["w2"][1]
    /\ \E w \in Workers :
          Bookmarks(disk[KAIWA_BOOKMARKS_FILE], bmReq[w][1]) # bmReq[w][2]

(***************************************************************************)
(* Counting                                                                *)
(***************************************************************************)
\* the keys a request may name: those incremented here and one that never is
Named == Keys \cup {"k2"}

\* how many increment calls for a key have returned
Count(s, k) == IF k \in Keys THEN calls[s][k] ELSE 0

\* a store that held nothing when requests began
BeganEmpty(s) == pc["main"] = "serving" /\ start[s] = EmptyMap

\* increment returns in this step
IncrementReturns(w) == pc[w] = "w_inc" /\ pc'[w] # "w_inc"

\* C15: in a store that began empty, get answers 0 for every key never
\* incremented and n after n increments, the i-th increment of a key returns
\* i, and an increment changes no other key and nothing in the other store.
SequentialCounting ==
    [][/\ \A s \in Stores, k \in Named :
             BeganEmpty(s)' => Get(data'[s], k) = Count(s, k)'
       /\ \A w \in Workers :
             IncrementReturns(w) =>
                LET s == arg[w][1]
                    k == arg[w][2]
                IN  /\ BeganEmpty(s)
                          => /\ Get(data'[s], k) = calls[s][k] + 1
                             /\ returned'[s][k]
                                   = returned[s][k] \cup {calls[s][k] + 1}
                    /\ \A j \in Named \ {k} :
                          Get(data'[s], j) = Get(data[s], j)
                    /\ \A o \in Stores \ {s} : data'[o] = data[o]]_vars

\* the second increment of a key has returned in a store that began empty,
\* while the other store holds a counter
SequentialCountingWitness ==
    \E s \in Stores :
       /\ BeganEmpty(s)
       /\ calls[s]["k1"] = 2
       /\ Get(data[s], "k1") = 2
       /\ \E o \in Stores \ {s} : Get(data[o], "k1") > 0

(***************************************************************************)
(* The dirty flag                                                          *)
(***************************************************************************)
\* the flush thread t is in fails in this step
FlushFails(t) == pc[t] \in SavePos /\ Raises(t)

\* the flush thread t is in finds the store clean and returns
FlushSkips(t) ==
    pc[t] \in SavePos /\ sub[t] = "check" /\ pc'[t] # pc[t]

\* what a failed flush leaves: memory and the flag as they are
LeavesMemory(t) == data' = data /\ dirty' = dirty

\* the snapshot file holds what it held when the flush of thread t copied
\* the mapping, or a snapshot that another flush of the store has renamed
\* over it since
KeepsFile(t) ==
    \/ disk'[FileAt(pc[t])] = before[t]
    \/ disk'[FileAt(pc[t])].kind = "object" /\ disk' = disk

\* only an increment sets the flag, and a flush that finds it clear writes
\* nothing
FlagDiscipline ==
    /\ \A s \in Stores :
          dirty'[s] /\ ~dirty[s]
             => \E w \in Workers : IncrementReturns(w) /\ arg[w][1] = s
    /\ \A t \in {"main", "bg"} :
          FlushSkips(t)
             => ~dirty[StoreAt(pc[t])] /\ disk' = disk /\ tmp' = tmp

\* C16: a flush clears the flag before the write is confirmed.  A flush
\* whose write fails leaves the mapping unchanged, the snapshot file with the
\* content it had (or with what another flush has put there since), and the
\* flag as the copy step left it; the flag is set
\* again by an increment only, and a flush that finds it clear writes nothing.
FailedFlush ==
    [][/\ FlagDiscipline
       /\ \A t \in {"main", "bg"} :
             FlushFails(t) => LeavesMemory(t) /\ KeepsFile(t)]_vars

\* the same, without the file
FailedFlushMemory ==
    [][/\ FlagDiscipline
       /\ \A t \in {"main", "bg"} : FlushFails(t) => LeavesMemory(t)]_vars

\* the same, where os.name is not 'nt'
FailedFlushPosix ==
    [][/\ FlagDiscipline
       /\ \A t \in {"main", "bg"} :
             FlushFails(t) /\ osName = "posix"
                => LeavesMemory(t) /\ KeepsFile(t)]_vars

\* a flush failed and left the store clean though memory is ahead of the file
FailedFlushWitness ==
    \E s \in Stores :
       /\ result = "failed"
       /\ ~dirty[s]
       /\ pc["main"] = "exit_sleep"
       /\ Exists(disk[filepath(s)])
       /\ disk[filepath(s)] # Dump(data[s])

(***************************************************************************)
(* Stopping the background loop                                            *)
(***************************************************************************)
\* how far the loop is from its end: the statements of one pass in order,
\* then the loop test, then the exit
PosRank(p) ==
    CASE p = "bg_sleep" -> 7
      [] p = "bg_save_bunpro" -> 6
      [] p = "bg_save_wk" -> 5
      [] p = "bg_cond" -> 4
      [] p = "bg_up" -> 3
      [] p = "bg_check" -> 2
      [] p = "bg_exited" -> 1
      [] OTHER -> 0

SubRank(q) ==
    CASE q = "check" -> 5
      [] q = "copy" -> 4
      [] q = "write" -> 3
      [] q = "remove" -> 2
      [] q = "rename" -> 1
      [] OTHER -> 0

BgRank == PosRank(pc["bg"]) * 6 + SubRank(sub["bg"])

\* the background thread takes a step
BgMoves == pc'["bg"] # pc["bg"] \/ sub'["bg"] # sub["bg"]

\* a step of the background thread
BgStep ==
    \/ BgCheck
    \/ BgSleep
    \/ SaveCheck("bg")
    \/ SaveCopy("bg")
    \/ WriteTemp("bg")
    \/ RemoveTarget("bg")
    \/ Rename("bg")
    \/ BgCond
    \/ BgUpload

\* the thread has been started and has not left the loop
InLoop == PosRank(pc["bg"]) > 1

\* C17: the loop reads the flag once per pass, at the loop test, and leaves
\* only there and only with the flag down; stop() interrupts nothing of the
\* pass in progress; and once the flag is down every step of the thread
\* brings it nearer to the exit, and while the process lives the thread is
\* never blocked: the pass in progress is completed, no other pass follows
\* it, and the loop ends.
CooperativeCancellation ==
    [][/\ pc'["bg"] = "bg_exited" /\ pc["bg"] # "bg_exited"
             => pc["bg"] = "bg_check" /\ ~running
       /\ running' # running
             => /\ ~running'
                /\ pc'["bg"] = pc["bg"] /\ sub'["bg"] = sub["bg"]
                /\ tmp'["bg"] = tmp["bg"] /\ buf'["bg"] = buf["bg"]
       /\ ~running /\ BgMoves => BgRank' < BgRank
       /\ ~running /\ InLoop /\ Alive => ENABLED BgStep]_vars

\* stop() was called during a pass, which has gone on to its second flush
CooperativeCancellationWitness ==
    /\ ~running
    /\ pc["bg"] = "bg_save_wk"
    /\ sub["bg"] = "rename"

\* the loop has ended while the process lives
LoopEnded == ~running /\ pc["bg"] = "bg_exited" /\ Alive

(***************************************************************************)
(* Durability while the loop runs: the process serves requests, stop() is  *)
(* not called, the background thread is scheduled again and again and a    *)
(* handler that holds the lock returns.                                    *)
(***************************************************************************)
InitTicking ==
    /\ osName \in {"posix", "nt"}
    /\ \E b \in {Absent, Dump(Put(EmptyMap, "k1", 1))} :
          disk = (DB_FILE :> b) @@ (WK_DB_FILE :> Absent)
                   @@ (KAIWA_BOOKMARKS_FILE :> Absent)
    /\ data = [s \in Stores |-> Load(EmptyMap, disk[filepath(s)])]
    /\ dirty = [s \in Stores |-> FALSE]
    /\ lock = [s \in Stores |-> "free"]
    /\ running = TRUE
    /\ tmp = [t \in Threads |-> Absent]
    /\ leaked = 0
    /\ faults = 0
    /\ pc = [t \in Threads |->
               IF t = "main" THEN "serving"
               ELSE IF t = "bg" THEN "bg_check" ELSE "idle"]
    /\ sub = [t \in Threads |-> "none"]
    /\ buf = [t \in Threads |-> Absent]
    /\ arg = [w \in Workers |-> NoArg]
    /\ reg = [w \in Workers |-> 0]
    /\ result = "none"
    /\ start = data
    /\ returned = [s \in Stores |-> [k \in Keys |-> {}]]
    /\ calls = [s \in Stores |-> [k \in Keys |-> 0]]
    /\ before = [t \in Threads |-> Absent]
    /\ finalSnap = [s \in Stores |-> Absent]
    /\ handlerIO = {}
    /\ InitNoMedia
    /\ InitNoBookmarks

NextTicking ==
    \/ \E w \in Workers : IncRead(w) \/ IncWrite(w)
    \/ BgCheck
    \/ BgSleep
    \/ SaveCheck("bg")
    \/ SaveCopy("bg")
    \/ WriteTemp("bg")
    \/ RemoveTarget("bg")
    \/ Rename("bg")
    \/ BgCond
    \/ BgUpload

SpecTicking ==
    /\ InitTicking
    /\ [][NextTicking]_vars
    /\ WF_vars(BgStep)
    /\ \A w \in Workers : WF_vars(IncWrite(w))

\* the largest value an increment returns here
MaxValue == MaxIncrements + 1

\* the value the snapshot file of a store records for a key, in the files d
RecordedIn(d, s, k) == Get(Load(EmptyMap, d[filepath(s)]), k)

Recorded(s, k) == RecordedIn(disk, s, k)

\* C19: as long as the loop keeps running and no snapshot write fails, a
\* value that an increment has returned is, some time later, on disk: the
\* snapshot file records that value or a greater one for the key.
EventualDurability ==
    \A s \in Stores, k \in Keys, v \in 1..MaxValue :
        (v \in returned[s][k]) ~> (Recorded(s, k) >= v \/ faults > 0)

\* the same, with failing writes counted in
EventualDurabilityUnderFaults ==
    \A s \in Stores, k \in Keys, v \in 1..MaxValue :
        (v \in returned[s][k]) ~> (Recorded(s, k) >= v)

\* the second increment of a key has returned and the file records it
EventualDurabilityWitness ==
    \E s \in Stores :
       /\ faults = 0
       /\ calls[s]["k1"] = 2
       /\ Recorded(s, "k1") \in returned[s]["k1"]
       /\ Recorded(s, "k1") = Get(data[s], "k1")

(***************************************************************************)
(* Restart: Init is a process that starts on the files the previous run    *)
(* left.  Until requests are served nothing but the startup sequence       *)
(* touches a store, so before its reload a store holds what the            *)
(* construction load took from the local snapshot file.                    *)
(***************************************************************************)
\* C20: a value flushed to the local snapshot file survives a restart: when
\* the reload that ends the startup sequence of a store is done, memory
\* holds for every key at least the value the file held before the restart,
\* and so does the file, whatever the pull did.
RestartDurability ==
    [][ReloadStep =>
          LET s == StoreAt(pc["main"])
          IN  \A k \in Keys :
                 /\ Get(data'[s], k) >= Get(data[s], k)
                 /\ RecordedIn(disk', s, k) >= Get(data[s], k)]_vars

\* the same, when the pull failed before it touched the file or brought
\* content that is not older
RestartDurabilityFreshPull ==
    [][ReloadStep =>
          LET s == StoreAt(pc["main"])
          IN  \A k \in Keys :
                 Recorded(s, k) >= Get(data[s], k)
                    => /\ Get(data'[s], k) >= Get(data[s], k)
                       /\ RecordedIn(disk', s, k) >= Get(data[s], k)]_vars

====
